---- MODULE Spec2Model ----
(***************************************************************************)
(* SQueue<T_QUEUE_ELEMENTS, QUEUE_SIZE> (squeue.hpp, version 1.1.0): a     *)
(* statically allocated circular-buffer queue.  The queue object is the    *)
(* five private attributes buffer, queue_head, queue_tail,                 *)
(* num_elements_stored and queue_overflow; every public method is an       *)
(* operator over a record of those attributes, and one action per method   *)
(* applies it to the object.                                               *)
(*                                                                         *)
(* The uint32_t attributes are plain integers here: no reachable value     *)
(* comes near 2^32, and a decrement below zero, which the C++ would wrap   *)
(* to 2^32 - 1, shows as -1, outside the range 0..QUEUE_SIZE either way.   *)
(***************************************************************************)
EXTENDS Integers, Sequences, FiniteSets, TLC

\* Largest capacity (template argument QUEUE_SIZE) that is instantiated.
MaxQueueSize == 3

\* Element values are 1..MaxValue.
MaxValue == 3

\* Largest capacity and largest element value where two objects are
\* explored side by side (SpecCopy).
MaxCopyQueueSize == 2
MaxCopyValue == 2

\* enum class t_squeue_rc
OK == 0
OVERFLOW == 1
ERROR == 255

VARIABLES
    QUEUE_SIZE,            \* template argument, fixed for the instance
    buffer,                \* T_QUEUE_ELEMENTS buffer[QUEUE_SIZE]
    queue_head,            \* uint32_t
    queue_tail,            \* uint32_t
    num_elements_stored,   \* uint32_t
    queue_overflow,        \* bool
    ref,                   \* reference bounded FIFO kept beside the queue
    last,                  \* the last call: method, argument, result, object before it
    run,                   \* the calls made since construction, while they
                           \* form "k pushes, then front()/pop() pairs"
    last_change,           \* the most recent call that changed the object
    written,               \* buffer indexes written since construction or clear()
    queue_copy,            \* a second object, copy-constructed from the first
    show,                  \* show_queue_content(): where it is, its counter i,
                           \* and k, the count of the queue it was called with
    v1_0_0                 \* an object of version 1.0.0 of the class

qvars == <<buffer, queue_head, queue_tail, num_elements_stored, queue_overflow>>
vars == <<QUEUE_SIZE, buffer, queue_head, queue_tail, num_elements_stored,
          queue_overflow, ref, last, run, last_change, written, queue_copy,
          show, v1_0_0>>

\* T_QUEUE_ELEMENTS
Values == 1..MaxValue
CopyValues == 1..MaxCopyValue

\* The object as one value.
Self ==
    [buffer |-> buffer, queue_head |-> queue_head, queue_tail |-> queue_tail,
     num_elements_stored |-> num_elements_stored,
     queue_overflow |-> queue_overflow]

\* T_QUEUE_ELEMENTS* : nullptr, or the address of one slot of buffer.
nullptr == [null |-> TRUE]
AddrOf(i) == [null |-> FALSE, index |-> i]

\* *p for a pointer p into the buffer of q; 0 stands for "no element".
Deref(q, p) == IF p.null THEN 0 ELSE q.buffer[p.index]

\* SQueue(): the indexes, the count and the flag are initialised, the
\* buffer is not, so it holds whatever b the memory held.
SQueue(b) ==
    [buffer |-> b, queue_head |-> 0, queue_tail |-> 0,
     num_elements_stored |-> 0, queue_overflow |-> FALSE]

----------------------------------------------------------------------------
(* Methods *)

size(q) == q.num_elements_stored

empty(q) == q.num_elements_stored = 0

\* full with a strict comparison
full_Strict(q) == q.num_elements_stored > QUEUE_SIZE

full(q) == q.num_elements_stored >= QUEUE_SIZE

\* front without the check for an empty queue
front_NoEmptyCheck(q) == AddrOf(q.queue_tail)

\* front reading the slot after the tail
front_NextSlot(q) ==
    IF empty(q) THEN nullptr ELSE AddrOf((q.queue_tail + 1) % QUEUE_SIZE)

front(q) ==
    IF empty(q) THEN nullptr ELSE AddrOf(q.queue_tail)

\* back reading the slot at the head
back_AtHead(q) ==
    IF empty(q) THEN nullptr ELSE AddrOf(q.queue_head)

back(q) ==
    IF empty(q)
    THEN nullptr
    ELSE LET last_index == IF q.queue_head = 0
                           THEN QUEUE_SIZE - 1
                           ELSE q.queue_head - 1
         IN  AddrOf(last_index)

\* push with the tail left where it is when the queue is full
push_KeepTail(q, element) ==
    LET q1 == IF full(q)
              THEN [q EXCEPT !.queue_overflow = TRUE]
              ELSE [q EXCEPT !.queue_overflow = FALSE,
                             !.num_elements_stored =
                                 q.num_elements_stored + 1]
        q2 == [q1 EXCEPT !.buffer[q1.queue_head] = element,
                         !.queue_head = (q1.queue_head + 1) % QUEUE_SIZE]
    IN  [q |-> q2, rc |-> IF q2.queue_overflow THEN OVERFLOW ELSE OK]

\* push that reports whether the queue is full after the call
push_ReportsFull(q, element) ==
    LET q1 == IF full(q)
              THEN [q EXCEPT !.queue_overflow = TRUE,
                             !.queue_tail = (q.queue_tail + 1) % QUEUE_SIZE]
              ELSE [q EXCEPT !.queue_overflow = FALSE,
                             !.num_elements_stored = q.num_elements_stored + 1]
        q2 == [q1 EXCEPT !.buffer[q1.queue_head] = element,
                         !.queue_head = (q1.queue_head + 1) % QUEUE_SIZE]
    IN  [q |-> q2, rc |-> IF full(q2) THEN OVERFLOW ELSE OK]

\* push that refuses the element on a full queue and reports an error
push_ErrorWhenFull(q, element) ==
    IF full(q)
    THEN [q |-> q, rc |-> ERROR]
    ELSE LET q1 == [q EXCEPT !.queue_overflow = FALSE,
                             !.num_elements_stored = q.num_elements_stored + 1]
             q2 == [q1 EXCEPT !.buffer[q1.queue_head] = element,
                              !.queue_head = (q1.queue_head + 1) % QUEUE_SIZE]
         IN  [q |-> q2, rc |-> OK]

\* push that advances the head before writing the element
push_WriteAfterAdvance(q, element) ==
    LET q1 == IF full(q)
              THEN [q EXCEPT !.queue_overflow = TRUE,
                             !.queue_tail = (q.queue_tail + 1) % QUEUE_SIZE]
              ELSE [q EXCEPT !.queue_overflow = FALSE,
                             !.num_elements_stored = q.num_elements_stored + 1]
        h  == (q1.queue_head + 1) % QUEUE_SIZE
        q2 == [q1 EXCEPT !.queue_head = h, !.buffer[h] = element]
    IN  [q |-> q2, rc |-> IF q2.queue_overflow THEN OVERFLOW ELSE OK]

\* push with the head incremented without the modulo
push_NoWrap(q, element) ==
    LET q1 == IF full(q)
              THEN [q EXCEPT !.queue_overflow = TRUE,
                             !.queue_tail = (q.queue_tail + 1) % QUEUE_SIZE]
              ELSE [q EXCEPT !.queue_overflow = FALSE,
                             !.num_elements_stored =
                                 q.num_elements_stored + 1]
        q2 == [q1 EXCEPT !.buffer[q1.queue_head % QUEUE_SIZE] = element,
                         !.queue_head = q1.queue_head + 1]
    IN  [q |-> q2, rc |-> IF q2.queue_overflow THEN OVERFLOW ELSE OK]

push(q, element) ==
    LET q1 == IF full(q)
              THEN [q EXCEPT !.queue_overflow = TRUE,
                             !.queue_tail = (q.queue_tail + 1) % QUEUE_SIZE]
              ELSE [q EXCEPT !.queue_overflow = FALSE,
                             !.num_elements_stored =
                                 q.num_elements_stored + 1]
        q2 == [q1 EXCEPT !.buffer[q1.queue_head] = element,
                         !.queue_head = (q1.queue_head + 1) % QUEUE_SIZE]
    IN  [q |-> q2, rc |-> IF q2.queue_overflow THEN OVERFLOW ELSE OK]

\* pop that leaves the overflow flag as it is
pop_KeepOverflow(q) ==
    IF empty(q)
    THEN q
    ELSE [q EXCEPT !.queue_tail = (q.queue_tail + 1) % QUEUE_SIZE,
                   !.num_elements_stored = q.num_elements_stored - 1]

\* pop that takes equal head and tail indexes for an empty queue
pop_EmptyIfHeadIsTail(q) ==
    IF q.queue_head = q.queue_tail
    THEN q
    ELSE [q EXCEPT !.queue_tail = (q.queue_tail + 1) % QUEUE_SIZE,
                   !.num_elements_stored = q.num_elements_stored - 1,
                   !.queue_overflow = FALSE]

\* pop that resets the slot it frees to a value-initialised element (0)
pop_ResetsSlot(q) ==
    IF empty(q)
    THEN q
    ELSE [q EXCEPT !.buffer[q.queue_tail] = 0,
                   !.queue_tail = (q.queue_tail + 1) % QUEUE_SIZE,
                   !.num_elements_stored = q.num_elements_stored - 1,
                   !.queue_overflow = FALSE]

\* pop without the early return on an empty queue
pop_NoEmptyCheck(q) ==
    [q EXCEPT !.queue_tail = (q.queue_tail + 1) % QUEUE_SIZE,
              !.num_elements_stored =
                  q.num_elements_stored - 1,
              !.queue_overflow = FALSE]

pop(q) ==
    IF empty(q)
    THEN q
    ELSE [q EXCEPT !.queue_tail = (q.queue_tail + 1) % QUEUE_SIZE,
                   !.num_elements_stored =
                       q.num_elements_stored - 1,
                   !.queue_overflow = FALSE]

\* clear that forgets the head index
clear_KeepHead(q) ==
    [q EXCEPT !.queue_tail = 0,
              !.num_elements_stored = 0,
              !.queue_overflow = FALSE]

clear(q) ==
    [q EXCEPT !.queue_head = 0,
              !.queue_tail = 0,
              !.num_elements_stored = 0,
              !.queue_overflow = FALSE]

\* The loop of contains from iteration i on.
RECURSIVE contains_from(_, _, _)
contains_from(q, element, i) ==
    IF i < q.num_elements_stored
    THEN LET index == (q.queue_tail + i) % QUEUE_SIZE
         IN  IF element = q.buffer[index]
             THEN TRUE
             ELSE contains_from(q, element, i + 1)
    ELSE FALSE

\* The buffer indexes the loop of contains reads from iteration i on.
RECURSIVE contains_reads(_, _, _)
contains_reads(q, element, i) ==
    IF i < q.num_elements_stored
    THEN LET index == (q.queue_tail + i) % QUEUE_SIZE
         IN  IF element = q.buffer[index]
             THEN {index}
             ELSE {index} \cup contains_reads(q, element, i + 1)
    ELSE {}

\* contains scanning the whole buffer instead of the stored elements
contains_WholeBuffer(q, element) ==
    \E index \in 0..(QUEUE_SIZE - 1) : element = q.buffer[index]

contains(q, element) == contains_from(q, element, 0)

----------------------------------------------------------------------------
(* The reference: a bounded FIFO kept beside the queue *)

RefPush(r, element) ==
    IF Len(r) >= QUEUE_SIZE THEN Append(Tail(r), element) ELSE Append(r, element)

RefPop(r) == IF r = <<>> THEN r ELSE Tail(r)

RefClear(r) == <<>>

\* The script "k <= QUEUE_SIZE pushes on a new queue, then front()/pop()
\* pairs": what was pushed and what front() gave before each pop.
RunStart == [phase |-> "push", pushed |-> <<>>, popped |-> <<>>]
RunOff == [phase |-> "off", pushed |-> <<>>, popped |-> <<>>]

RunPush(r, element) ==
    IF r.phase = "push" /\ Len(r.pushed) < QUEUE_SIZE
    THEN [r EXCEPT !.pushed = Append(r.pushed, element)]
    ELSE RunOff

RunPop(r, got) ==
    IF r.phase \in {"push", "pop"} /\ Len(r.popped) < Len(r.pushed)
    THEN [r EXCEPT !.phase = "pop", !.popped = Append(r.popped, got)]
    ELSE RunOff

----------------------------------------------------------------------------
(* The object and its callers *)

\* show_queue_content() is not running.
NotCalled == [pc |-> "not called", i |-> 0, k |-> 0]

\* No second object has been constructed.
NoCopy == [constructed |-> FALSE]

Init ==
    /\ QUEUE_SIZE \in 1..MaxQueueSize
    /\ \E b \in [0..(QUEUE_SIZE - 1) -> Values] :
          /\ buffer = SQueue(b).buffer
          /\ queue_head = SQueue(b).queue_head
          /\ queue_tail = SQueue(b).queue_tail
          /\ num_elements_stored = SQueue(b).num_elements_stored
          /\ queue_overflow = SQueue(b).queue_overflow
          /\ last = [op |-> "SQueue", arg |-> 0, ret |-> 0, pre |-> SQueue(b)]
    /\ ref = <<>>
    /\ run = RunStart
    /\ last_change = "none"
    /\ written = {}
    /\ queue_copy = NoCopy
    /\ show = NotCalled
    /\ v1_0_0 = NoCopy

\* The object becomes q.
Becomes(q) ==
    /\ buffer' = q.buffer
    /\ queue_head' = q.queue_head
    /\ queue_tail' = q.queue_tail
    /\ num_elements_stored' = q.num_elements_stored
    /\ queue_overflow' = q.queue_overflow

\* A call of a method that leaves the object alone.
Query(op, arg, ret) ==
    /\ last' = [op |-> op, arg |-> arg, ret |-> ret, pre |-> Self]
    /\ UNCHANGED <<QUEUE_SIZE, qvars, ref, run, last_change, written,
                   queue_copy, show, v1_0_0>>

Push(element) ==
    /\ Becomes(push(Self, element).q)
    /\ last' = [op |-> "push", arg |-> element,
                ret |-> push(Self, element).rc, pre |-> Self]
    /\ ref' = RefPush(ref, element)
    /\ run' = RunPush(run, element)
    /\ last_change' = IF num_elements_stored >= QUEUE_SIZE
                      THEN "push on full" ELSE "push"
    /\ written' = written \cup {queue_head}
    /\ UNCHANGED <<QUEUE_SIZE, queue_copy, show, v1_0_0>>

Pop ==
    /\ Becomes(pop(Self))
    /\ last' = [op |-> "pop", arg |-> 0, ret |-> 0, pre |-> Self]
    /\ ref' = RefPop(ref)
    /\ run' = RunPop(run, Deref(Self, front(Self)))
    /\ last_change' = IF num_elements_stored = 0 THEN last_change ELSE "pop"
    /\ UNCHANGED <<QUEUE_SIZE, written, queue_copy, show, v1_0_0>>

Clear ==
    /\ Becomes(clear(Self))
    /\ last' = [op |-> "clear", arg |-> 0, ret |-> 0, pre |-> Self]
    /\ ref' = RefClear(ref)
    /\ run' = RunOff
    /\ last_change' = "clear"
    /\ written' = {}
    /\ UNCHANGED <<QUEUE_SIZE, queue_copy, show, v1_0_0>>

Front == Query("front", 0, front(Self))

Back == Query("back", 0, back(Self))

Size == Query("size", 0, size(Self))

Empty == Query("empty", 0, empty(Self))

Full == Query("full", 0, full(Self))

Contains(element) == Query("contains", element, contains(Self, element))

Next ==
    \/ \E element \in Values : Push(element)
    \/ Pop
    \/ Clear
    \/ Front
    \/ Back
    \/ Size
    \/ Empty
    \/ Full
    \/ \E element \in Values : Contains(element)

Spec == Init /\ [][Next]_vars

----------------------------------------------------------------------------
(* A second object, copy-constructed from the first as show_queue_content   *)
(* does, and used beside it                                                 *)

\* copy construction that copies the buffer and starts the indexes anew
copy_BufferOnly(q) == SQueue(q.buffer)

\* SQueue(const SQueue&), implicitly defined: every attribute is copied,
\* the buffer element by element.
copy(q) ==
    [buffer |-> [i \in DOMAIN q.buffer |-> q.buffer[i]],
     queue_head |-> q.queue_head,
     queue_tail |-> q.queue_tail,
     num_elements_stored |-> q.num_elements_stored,
     queue_overflow |-> q.queue_overflow]

\* The two objects side by side are explored for capacities
\* 1..MaxCopyQueueSize and element values 1..MaxCopyValue; the observation
\* variables ref, last, run, last_change and written play no part and keep
\* their initial values.
InitCopy ==
    /\ QUEUE_SIZE \in 1..MaxCopyQueueSize
    /\ \E b \in [0..(QUEUE_SIZE - 1) -> CopyValues] :
          /\ buffer = SQueue(b).buffer
          /\ queue_head = SQueue(b).queue_head
          /\ queue_tail = SQueue(b).queue_tail
          /\ num_elements_stored = SQueue(b).num_elements_stored
          /\ queue_overflow = SQueue(b).queue_overflow
    /\ last = [op |-> "none", arg |-> 0, ret |-> 0, pre |-> NoCopy]
    /\ ref = <<>>
    /\ run = RunStart
    /\ last_change = "none"
    /\ written = {}
    /\ queue_copy = NoCopy
    /\ show = NotCalled
    /\ v1_0_0 = NoCopy

\* A call on the first object: it becomes q, the second is left alone.
OnOriginal(q) ==
    /\ Becomes(q)
    /\ UNCHANGED <<QUEUE_SIZE, ref, last, run, last_change, written,
                   queue_copy, show, v1_0_0>>

\* A call on the second object: it becomes q, the first is left alone.
OnCopy(q) ==
    /\ queue_copy # NoCopy
    /\ queue_copy' = q
    /\ UNCHANGED <<QUEUE_SIZE, qvars, ref, last, run, last_change, written,
                   show, v1_0_0>>

\* SQueue<s_data, QUEUE_SIZE> queue_copy = queue;
Copy ==
    /\ queue_copy' = copy(Self)
    /\ UNCHANGED <<QUEUE_SIZE, qvars, ref, last, run, last_change, written,
                   show, v1_0_0>>

OriginalPush(element) == OnOriginal(push(Self, element).q)

OriginalPop == OnOriginal(pop(Self))

OriginalClear == OnOriginal(clear(Self))

CopyPush(element) == OnCopy(push(queue_copy, element).q)

\* One turn of the loop of show_queue_content: front(), then pop().
CopyFrontPop ==
    /\ queue_copy # NoCopy
    /\ front(queue_copy) # nullptr
    /\ OnCopy(pop(queue_copy))

\* pop() on the second object outside that loop.
CopyPop == OnCopy(pop(queue_copy))

CopyClear == OnCopy(clear(queue_copy))

\* A call on the first object that changes it.
OriginalCall ==
    \/ \E element \in CopyValues : OriginalPush(element)
    \/ OriginalPop
    \/ OriginalClear

\* A call on the second object that changes it.
CopyCall ==
    \/ \E element \in CopyValues : CopyPush(element)
    \/ CopyFrontPop
    \/ CopyPop
    \/ CopyClear

NextCopy ==
    \/ \E element \in CopyValues : OriginalPush(element)
    \/ OriginalPop
    \/ OriginalClear
    \/ Copy
    \/ \E element \in CopyValues : CopyPush(element)
    \/ CopyFrontPop
    \/ CopyPop
    \/ CopyClear

SpecCopy == InitCopy /\ [][NextCopy]_vars

----------------------------------------------------------------------------
(* Vocabulary of the properties *)

\* The stored elements, oldest first, read from the buffer.
Window(q) ==
    [i \in 1..q.num_elements_stored |->
        q.buffer[(q.queue_tail + i - 1) % QUEUE_SIZE]]

\* The buffer indexes that hold the stored elements.
WindowIndexes(q) ==
    {(q.queue_tail + i) % QUEUE_SIZE : i \in 0..(q.num_elements_stored - 1)}

\* The elements of a sequence.
Range(s) == {s[i] : i \in DOMAIN s}

----------------------------------------------------------------------------
(* Properties *)

\* C1: after any sequence of push, pop and clear, the elements read from the
\* buffer at tail, tail+1, ..., tail+count-1 (mod QUEUE_SIZE) are, in that
\* order, the contents of the reference bounded FIFO, and size() is its length.
C1_RefinesBoundedFifo ==
    /\ size(Self) = Len(ref)
    /\ Window(Self) = ref

\* C1 witness: a full queue whose window wraps round the end of the buffer
\* after an eviction, with different oldest and second-oldest elements.
C1_Witness ==
    /\ QUEUE_SIZE >= 2
    /\ last.op = "push" /\ last.ret = OVERFLOW
    /\ queue_tail # 0
    /\ Len(ref) = QUEUE_SIZE
    /\ ref[1] # ref[2]

\* C2: on a new queue, after each of k <= QUEUE_SIZE pushes size() is the
\* number of pushes made; the front()/pop() pairs that follow give the pushed
\* elements in the order pushed, and after k of them the queue is empty.
C2_PushThenPopIsFifo ==
    /\ run.phase = "push" => size(Self) = Len(run.pushed)
    /\ run.phase = "pop" =>
          /\ run.popped = SubSeq(run.pushed, 1, Len(run.popped))
          /\ size(Self) = Len(run.pushed) - Len(run.popped)
          /\ Len(run.popped) = Len(run.pushed) => empty(Self)

\* C2 witness: QUEUE_SIZE pushes of elements that are not all equal, then
\* QUEUE_SIZE front()/pop() pairs.
C2_Witness ==
    /\ QUEUE_SIZE >= 2
    /\ run.phase = "pop"
    /\ Len(run.pushed) = QUEUE_SIZE
    /\ Len(run.popped) = QUEUE_SIZE
    /\ run.pushed[1] # run.pushed[2]
    /\ last.op = "pop"

\* C3 as stated: a push on a full queue of any capacity returns OVERFLOW,
\* leaves size() at QUEUE_SIZE, and the new front() is the element that was
\* second-oldest before the push.
C3_Original ==
    (last.op = "push" /\ full(last.pre)) =>
        /\ last.ret = OVERFLOW
        /\ size(Self) = QUEUE_SIZE
        /\ Len(Window(last.pre)) >= 2
        /\ Deref(Self, front(Self)) = Window(last.pre)[2]

\* C3 amended: a push on a full queue returns OVERFLOW and leaves size() at
\* QUEUE_SIZE; the new front() is the element that was second-oldest before
\* the push when QUEUE_SIZE >= 2, and the pushed element itself when
\* QUEUE_SIZE = 1 (a queue of one element has no second-oldest).
C3_PushOnFullEvictsOldest ==
    (last.op = "push" /\ full(last.pre)) =>
        /\ last.ret = OVERFLOW
        /\ size(Self) = QUEUE_SIZE
        /\ Deref(Self, front(Self)) =
              IF QUEUE_SIZE >= 2 THEN Window(last.pre)[2] ELSE last.arg

\* C3 witness: a push on a full queue of capacity >= 2 whose oldest and
\* second-oldest elements differ.
C3_Witness ==
    /\ last.op = "push" /\ full(last.pre)
    /\ QUEUE_SIZE >= 2
    /\ Window(last.pre)[1] # Window(last.pre)[2]

\* C4: push returns OVERFLOW if and only if the queue was full just before
\* the call, that is exactly when the slot it wrote held a stored element
\* before it; otherwise it returns OK.
C4_OverflowIffWasFull ==
    last.op = "push" =>
        /\ last.ret \in {OK, OVERFLOW}
        /\ last.ret = OVERFLOW <=> full(last.pre)
        /\ last.ret = OK <=> ~full(last.pre)
        /\ \A i \in DOMAIN buffer :
              i # last.pre.queue_head => buffer[i] = last.pre.buffer[i]
        /\ last.ret = OVERFLOW <=>
              last.pre.queue_head \in WindowIndexes(last.pre)

\* C4 witness: a push without eviction on a queue that holds elements, its
\* oldest away from slot 0, and whose write wraps the head round to index 0.
C4_Witness ==
    /\ last.op = "push" /\ last.ret = OK
    /\ ~empty(last.pre)
    /\ last.pre.queue_tail # 0
    /\ queue_head = 0
    /\ run.phase = "off"

\* C5: push always stores its element: right after push(x), full or not,
\* empty() is false and back() is the address of buffer[(head - 1) mod
\* QUEUE_SIZE], which holds x; while the queue is not empty back() keeps
\* designating the most recently pushed element, also after pops.
C5_BackIsLastPushed ==
    /\ last.op = "push" =>
          /\ ~empty(Self)
          /\ back(Self) = AddrOf((queue_head + QUEUE_SIZE - 1) % QUEUE_SIZE)
          /\ Deref(Self, back(Self)) = last.arg
    /\ ~empty(Self) =>
          /\ back(Self) = AddrOf((queue_head + QUEUE_SIZE - 1) % QUEUE_SIZE)
          /\ Deref(Self, back(Self)) = ref[Len(ref)]

\* C5 witness: the queue still holds elements after a pop that followed an
\* evicting push, and the head has wrapped to index 0.
C5_Witness ==
    /\ last.op = "pop" /\ last.pre.queue_overflow
    /\ ~empty(Self)
    /\ queue_head = 0
    /\ QUEUE_SIZE >= 2

\* C6: pop() on an empty queue changes nothing: head, tail, count, the
\* overflow flag and every buffer slot are as before, and size() stays 0.
C6_PopOnEmptyIsNoOp ==
    (last.op = "pop" /\ empty(last.pre)) =>
        /\ Self = last.pre
        /\ size(Self) = 0

\* C6 witness: a pop on a queue that is empty with its indexes away from 0.
C6_Witness ==
    /\ last.op = "pop" /\ empty(last.pre)
    /\ last.pre.queue_head # 0

\* C7: clear() sets head, tail and count to 0 and the overflow flag to
\* false, as in a newly constructed queue, so empty() is true and front()
\* and back() return nullptr; every buffer slot keeps its value.
C7_ClearResets ==
    last.op = "clear" =>
        /\ queue_head = 0 /\ queue_tail = 0
        /\ num_elements_stored = 0
        /\ queue_overflow = FALSE
        /\ Self = SQueue(last.pre.buffer)
        /\ empty(Self)
        /\ front(Self) = nullptr /\ back(Self) = nullptr

\* C7 witness: clear() on a full queue right after an eviction, indexes away
\* from 0.
C7_Witness ==
    /\ last.op = "clear"
    /\ last.pre.queue_overflow
    /\ last.pre.queue_head # 0

\* C8: for every element value x, contains(x) is true if and only if x is
\* one of the elements of the reference list; it is false for every x when
\* the queue is empty.
C8_ContainsIffStored ==
    /\ \A x \in Values : contains(Self, x) <=> x \in Range(ref)
    /\ empty(Self) => \A x \in Values : ~contains(Self, x)
    /\ last.op = "contains" => last.ret = (last.arg \in Range(ref))

\* C8 witness: contains(x) is false on a non-empty queue while a buffer
\* slot outside the stored elements still holds x.
C8_Witness ==
    /\ last.op = "contains" /\ last.ret = FALSE
    /\ ~empty(Self)
    /\ run.phase = "off"
    /\ \E i \in DOMAIN buffer : buffer[i] = last.arg

\* C9: front() and back() return nullptr exactly when the queue is empty;
\* otherwise front() is the address of buffer[tail], which holds the oldest
\* element neither popped nor evicted; front() leaves the queue as it was.
C9_FrontIsOldest ==
    /\ front(Self) = nullptr <=> empty(Self)
    /\ back(Self) = nullptr <=> empty(Self)
    /\ ~empty(Self) =>
          /\ front(Self) = AddrOf(queue_tail)
          /\ Deref(Self, front(Self)) = Head(ref)
    /\ last.op = "front" =>
          /\ last.ret = front(Self)
          /\ Self = last.pre

\* C9 witness: front() answered on a queue whose oldest element is not in
\* slot 0, and front() answered nullptr on an emptied queue.
C9_Witness ==
    \/ /\ last.op = "front" /\ last.ret # nullptr
       /\ queue_tail # 0
       /\ queue_overflow
    \/ /\ last.op = "front" /\ last.ret = nullptr
       /\ queue_tail # 0

\* C10: in every reachable state 0 <= head < QUEUE_SIZE, 0 <= tail <
\* QUEUE_SIZE and 0 <= count <= QUEUE_SIZE.
C10_IndexesInRange ==
    /\ queue_head \in 0..(QUEUE_SIZE - 1)
    /\ queue_tail \in 0..(QUEUE_SIZE - 1)
    /\ num_elements_stored \in 0..QUEUE_SIZE
    /\ QUEUE_SIZE >= 1

\* C10 witness: a full queue with head and tail on the last index.
C10_Witness ==
    /\ QUEUE_SIZE >= 2
    /\ num_elements_stored = QUEUE_SIZE
    /\ queue_head = QUEUE_SIZE - 1
    /\ queue_tail = QUEUE_SIZE - 1

C12_OverflowIsTransient ==
    /\ queue_overflow <=> last_change = "push on full"
    /\ (last.op = "pop" /\ ~empty(last.pre)) => ~queue_overflow
    /\ last.op = "clear" => ~queue_overflow
    /\ (last.op = "push" /\ ~full(last.pre)) => ~queue_overflow

\* C12 witness: a pop right after the second or later of a run of evicting
\* pushes has cleared the flag.
C12_Witness ==
    /\ last.op = "pop"
    /\ last.pre.queue_overflow
    /\ last.pre.queue_tail # 0
    /\ ~queue_overflow
    /\ last_change = "pop"

\* The pointers into the buffer that front() and back() may return.
SlotAddresses == {AddrOf(i) : i \in DOMAIN buffer}

\* C13: no operation has an error outcome: in every reachable state push,
\* pop, clear, front, back, size, empty, full and contains can all be called
\* and complete (every buffer access they make is inside the buffer), and
\* push returns OK or OVERFLOW, never ERROR.
C13_NoErrorOutcome ==
    /\ \A element \in Values : ENABLED Push(element)
    /\ ENABLED Pop
    /\ ENABLED Clear
    /\ ENABLED Front
    /\ ENABLED Back
    /\ ENABLED Size
    /\ ENABLED Empty
    /\ ENABLED Full
    /\ \A element \in Values : ENABLED Contains(element)
    /\ queue_head \in DOMAIN buffer
    /\ front(Self) \in {nullptr} \cup SlotAddresses
    /\ back(Self) \in {nullptr} \cup SlotAddresses
    /\ last.op = "push" => (last.ret \in {OK, OVERFLOW} /\ last.ret # ERROR)

\* C13 witness: a push on a full queue has returned, its result OVERFLOW.
C13_Witness ==
    /\ last.op = "push"
    /\ full(last.pre)
    /\ last.pre.queue_overflow
    /\ last.ret = OVERFLOW

\* C14: copy construction gives a second queue with the same buffer, head,
\* tail, count and overflow flag as the first; after it, every push, pop or
\* clear on the copy (draining it with front()/pop() included) leaves the
\* original's buffer, head, tail, count and flag unchanged, and every push,
\* pop or clear on the original leaves the copy unchanged.
C14_CopyIsDeepAndIndependent ==
    [][ /\ Copy =>
              /\ queue_copy'.buffer = buffer
              /\ queue_copy'.queue_head = queue_head
              /\ queue_copy'.queue_tail = queue_tail
              /\ queue_copy'.num_elements_stored = num_elements_stored
              /\ queue_copy'.queue_overflow = queue_overflow
              /\ Self' = Self
        /\ CopyCall => Self' = Self
        /\ OriginalCall => queue_copy' = queue_copy
      ]_vars

\* C14 witness: the copy of a full queue that had just evicted has been
\* drained to empty while the original still holds every element, and the
\* original has since been pushed to without the copy following.
C14_Witness ==
    /\ queue_copy # NoCopy
    /\ QUEUE_SIZE >= 2
    /\ empty(queue_copy)
    /\ queue_copy.queue_tail # 0
    /\ full(Self) /\ queue_overflow
    /\ queue_copy.buffer # buffer

\* C15: for every capacity, capacity 1 included, and in every reachable
\* empty state, wherever head and tail stand, a push immediately followed by
\* one pop leaves empty() true.
C15_PushThenPopLeavesEmpty ==
    [][ (last.op = "push" /\ empty(last.pre) /\ Pop) =>
            /\ empty(Self)'
            /\ size(Self)' = 0
      ]_vars

\* C15 witness: on a queue of capacity 1 that has been used before, a pop
\* has emptied the queue that a push on the empty queue had filled.
C15_Witness ==
    /\ QUEUE_SIZE = 1
    /\ last.op = "pop"
    /\ size(last.pre) = 1
    /\ ~last.pre.queue_overflow
    /\ run.phase = "off"
    /\ empty(Self)

\* The methods that only answer.
Queries == {"size", "empty", "full", "front", "back", "contains"}

\* C16: size(), empty(), full(), front(), back() and contains() are pure
\* queries: each leaves head, tail, count, the overflow flag and every buffer
\* slot unchanged; size() returns count, empty() returns count == 0 and
\* full() returns count == QUEUE_SIZE.
C16_QueriesArePure ==
    /\ last.op \in Queries => Self = last.pre
    /\ last.op = "size" => last.ret = num_elements_stored
    /\ last.op = "empty" => last.ret = (num_elements_stored = 0)
    /\ last.op = "full" => last.ret = (num_elements_stored = QUEUE_SIZE)
    /\ size(Self) = num_elements_stored
    /\ empty(Self) <=> num_elements_stored = 0
    /\ full(Self) <=> num_elements_stored = QUEUE_SIZE

\* C16 witness: full() has answered true on a queue that had just evicted,
\* its indexes away from 0 and its overflow flag still set.
C16_Witness ==
    /\ last.op = "full" /\ last.ret = TRUE
    /\ queue_overflow
    /\ queue_tail # 0

\* C17 (an element type without operator== is rejected by the static_assert
\* when the queue is instantiated with SQUEUE_ENABLE_CONTAINS) is a property
\* of compilation, not of any state or step of the queue; it has no formula.

\* C18: in every reachable state head == (tail + count) mod QUEUE_SIZE, so
\* head == tail holds exactly when the queue is empty or full; the count
\* alone tells the two apart.
C18_HeadIsTailPlusCount ==
    /\ queue_head = (queue_tail + num_elements_stored) % QUEUE_SIZE
    /\ queue_head = queue_tail <=> (empty(Self) \/ full(Self))
    /\ queue_head = queue_tail =>
          (num_elements_stored = 0 \/ num_elements_stored = QUEUE_SIZE)
    /\ ~(empty(Self) /\ full(Self))

\* C18 witness: a queue filled without eviction after pops, so that it is
\* full with head == tail away from index 0.
C18_Witness ==
    /\ QUEUE_SIZE >= 2
    /\ full(Self)
    /\ queue_head = queue_tail
    /\ queue_tail # 0
    /\ ~queue_overflow

\* C19: stale or never-written slots are never read: every buffer index that
\* front(), back() or contains() reads lies among the indexes (tail + i) mod
\* QUEUE_SIZE, 0 <= i < count, and every one of those slots was written by a
\* push made after construction or after the most recent clear().
C19_OnlyWrittenWindowIsRead ==
    /\ ~front(Self).null => front(Self).index \in WindowIndexes(Self)
    /\ ~back(Self).null => back(Self).index \in WindowIndexes(Self)
    /\ \A x \in Values : contains_reads(Self, x, 0) \subseteq WindowIndexes(Self)
    /\ WindowIndexes(Self) \subseteq written
    /\ (last.op \in {"front", "back"} /\ ~last.ret.null) =>
          last.ret.index \in WindowIndexes(Self) \cap written

\* C19 witness: back() has answered on a queue that holds elements beside a
\* slot written and popped since and a slot never written.
C19_Witness ==
    /\ last.op = "back" /\ ~last.ret.null
    /\ written \ WindowIndexes(Self) # {}
    /\ DOMAIN buffer \ written # {}

\* C20: a push on a full queue writes the new element into the slot that
\* held the oldest element (head == tail when full): the slot front()
\* designated just before the push holds the pushed element afterwards, it
\* is the slot back() designates, and no other slot has changed.
C20_EvictingPushOverwritesOldest ==
    (last.op = "push" /\ full(last.pre)) =>
        /\ last.pre.queue_head = last.pre.queue_tail
        /\ ~front(last.pre).null
        /\ Deref(Self, front(last.pre)) = last.arg
        /\ back(Self) = front(last.pre)
        /\ last.arg # Deref(last.pre, front(last.pre)) =>
              Deref(Self, front(last.pre)) # Deref(last.pre, front(last.pre))
        /\ \A i \in DOMAIN buffer :
              i # front(last.pre).index => buffer[i] = last.pre.buffer[i]

\* C20 witness: an evicting push of a value other than the oldest element,
\* on a queue of capacity >= 2 whose oldest element is not in slot 0.
C20_Witness ==
    /\ QUEUE_SIZE >= 2
    /\ last.op = "push" /\ full(last.pre)
    /\ last.pre.queue_tail # 0
    /\ last.arg # Deref(last.pre, front(last.pre))
    /\ Deref(Self, front(Self)) # last.arg

\* C21: pop() on a non-empty queue advances tail to (tail + 1) mod
\* QUEUE_SIZE, decrements count by exactly 1, clears the overflow flag and
\* leaves head and every buffer slot unchanged; the slot a front() call
\* returned just before the pop still holds the popped element after it.
C21_PopFrame ==
    (last.op = "pop" /\ ~empty(last.pre)) =>
        /\ queue_tail = (last.pre.queue_tail + 1) % QUEUE_SIZE
        /\ num_elements_stored = last.pre.num_elements_stored - 1
        /\ queue_overflow = FALSE
        /\ queue_head = last.pre.queue_head
        /\ buffer = last.pre.buffer
        /\ Deref(Self, front(last.pre)) = Deref(last.pre, front(last.pre))
        /\ Deref(Self, front(last.pre)) = Window(last.pre)[1]

\* C21 witness: a pop right after an evicting push, the tail wrapping from
\* the last index to 0, the queue still holding other elements.
C21_Witness ==
    /\ QUEUE_SIZE >= 2
    /\ last.op = "pop"
    /\ last.pre.queue_overflow
    /\ last.pre.queue_tail = QUEUE_SIZE - 1
    /\ queue_tail = 0
    /\ ~empty(Self)
    /\ Deref(Self, front(Self)) # Deref(Self, front(last.pre))

\* The effect of push(last.arg) on a non-full queue: the element is written
\* at buffer[head], head advances by one modulo QUEUE_SIZE, count grows by
\* exactly 1, the overflow flag is cleared, tail and every other slot are
\* unchanged and every previously stored element is where it was.
C22_PushNotFullFrame ==
    /\ buffer = [last.pre.buffer EXCEPT ![last.pre.queue_head] = last.arg]
    /\ queue_head = (last.pre.queue_head + 1) % QUEUE_SIZE
    /\ num_elements_stored = last.pre.num_elements_stored + 1
    /\ queue_overflow = FALSE
    /\ queue_tail = last.pre.queue_tail
    /\ \A i \in WindowIndexes(last.pre) : buffer[i] = last.pre.buffer[i]
    /\ Window(Self) = Append(Window(last.pre), last.arg)

\* The effect of a push on a full queue: count is unchanged and every
\* stored element other than the oldest is unchanged.
C22_PushFullFrame ==
    /\ num_elements_stored = last.pre.num_elements_stored
    /\ \A i \in WindowIndexes(last.pre) \ {last.pre.queue_tail} :
           buffer[i] = last.pre.buffer[i]
    /\ Window(Self) = Append(Tail(Window(last.pre)), last.arg)

\* C22 as stated: after a push on a non-full queue front() is unaffected,
\* whatever the queue held. A push on an empty queue refutes it: front()
\* was nullptr before and is the slot of the pushed element after.
C22_Original ==
    last.op = "push" =>
        IF full(last.pre)
        THEN C22_PushFullFrame
        ELSE C22_PushNotFullFrame /\ front(Self) = front(last.pre)

\* C22: push(x) on a non-full queue writes x at buffer[head], advances head
\* to (head + 1) mod QUEUE_SIZE, increments count by exactly 1, clears the
\* overflow flag and leaves tail and every other slot unchanged, so all
\* previously stored elements are unaffected, and front() is unaffected if
\* the queue was not empty (on an empty queue front() goes from nullptr to
\* the slot of x); on a full queue count is unchanged and every stored
\* element other than the oldest is unchanged.
C22_PushFrame ==
    last.op = "push" =>
        IF full(last.pre)
        THEN C22_PushFullFrame
        ELSE /\ C22_PushNotFullFrame
             /\ front(Self) = IF empty(last.pre)
                              THEN AddrOf(last.pre.queue_head)
                              ELSE front(last.pre)

\* C22 witness: a push on a partially filled queue whose head wraps from
\* the last index to 0, the front slot staying where it was.
C22_Witness ==
    /\ last.op = "push"
    /\ ~empty(last.pre)
    /\ ~full(last.pre)
    /\ last.pre.queue_head = QUEUE_SIZE - 1
    /\ queue_head = 0
    /\ front(Self) = front(last.pre)
    /\ last.arg # Deref(Self, front(Self))

\* The three states of the queue, by its count.
StateOf(q) ==
    IF q.num_elements_stored = 0 THEN "empty"
    ELSE IF q.num_elements_stored < QUEUE_SIZE THEN "partially-filled"
    ELSE "full"

\* C23: the queue is always in exactly one of the states empty (count = 0),
\* partially-filled (0 < count < QUEUE_SIZE) or full (count = QUEUE_SIZE),
\* and empty() and full() are never both true; a push never leads to empty,
\* a pop never leads to full, a push on a full queue leaves it full and a
\* full queue stops being full only by pop or clear; count changes by +1
\* (push when not full), 0 (push when full, pop when empty) or -1 (pop when
\* non-empty), and only clear changes it by more than 1.
C23_StateMachine ==
    LET before == last.pre.num_elements_stored
        after  == num_elements_stored
    IN  /\ after \in 0..QUEUE_SIZE
        /\ empty(Self) <=> StateOf(Self) = "empty"
        /\ full(Self) <=> StateOf(Self) = "full"
        /\ ~(empty(Self) /\ full(Self))
        /\ last.op = "push" => StateOf(Self) # "empty"
        /\ last.op = "pop" => StateOf(Self) # "full"
        /\ (last.op = "push" /\ StateOf(last.pre) = "full") =>
               StateOf(Self) = "full"
        /\ (StateOf(last.pre) = "full" /\ StateOf(Self) # "full") =>
               last.op \in {"pop", "clear"}
        /\ (last.op = "push" /\ ~full(last.pre)) => after = before + 1
        /\ (last.op = "push" /\ full(last.pre)) => after = before
        /\ (last.op = "pop" /\ empty(last.pre)) => after = before
        /\ (last.op = "pop" /\ ~empty(last.pre)) => after = before - 1
        /\ (after - before > 1 \/ before - after > 1) => last.op = "clear"
        /\ last.op \notin {"push", "pop", "clear"} => after = before

\* C23 witness: a clear that takes a full queue of three elements to empty,
\* a change of count by more than 1.
C23_Witness ==
    /\ last.op = "clear"
    /\ StateOf(last.pre) = "full"
    /\ last.pre.num_elements_stored = 3
    /\ StateOf(Self) = "empty"

\* C25: in every reachable state a true overflow flag implies
\* count = QUEUE_SIZE; so the flag is never true on an empty queue, and a
\* pop on an empty queue, which returns before clearing the flag, finds and
\* leaves the flag false.
C25_OverflowOnlyWhenFull ==
    /\ queue_overflow => num_elements_stored = QUEUE_SIZE
    /\ empty(Self) => ~queue_overflow
    /\ (last.op = "pop" /\ empty(last.pre)) =>
           (~last.pre.queue_overflow /\ ~queue_overflow)

\* C25 witness: a pop on a queue that had every slot written and was then
\* drained by pops, the flag false before and after it.
C25_Witness ==
    /\ last.op = "pop"
    /\ empty(last.pre)
    /\ last_change = "pop"
    /\ written = 0..(QUEUE_SIZE - 1)
    /\ ~queue_overflow

----------------------------------------------------------------------------
(* show_queue_content(): the loop that drains a copy of the queue           *)

\* The queue is built by calls that change it, for capacities
\* 1..MaxQueueSize and element values 1..MaxValue; the observation
\* variables ref, last, run, last_change and written play no part and keep
\* their initial values.
InitShow ==
    /\ QUEUE_SIZE \in 1..MaxQueueSize
    /\ \E b \in [0..(QUEUE_SIZE - 1) -> Values] :
          /\ buffer = SQueue(b).buffer
          /\ queue_head = SQueue(b).queue_head
          /\ queue_tail = SQueue(b).queue_tail
          /\ num_elements_stored = SQueue(b).num_elements_stored
          /\ queue_overflow = SQueue(b).queue_overflow
    /\ last = [op |-> "none", arg |-> 0, ret |-> 0, pre |-> NoCopy]
    /\ ref = <<>>
    /\ run = RunStart
    /\ last_change = "none"
    /\ written = {}
    /\ queue_copy = NoCopy
    /\ show = NotCalled
    /\ v1_0_0 = NoCopy

\* A call by main() that changes the queue, between calls of
\* show_queue_content().
MainCall(q) ==
    /\ show.pc = "not called"
    /\ OnOriginal(q)

MainPush(element) == MainCall(push(Self, element).q)

MainPop == MainCall(pop(Self))

MainClear == MainCall(clear(Self))

\* show_queue_content(queue) up to its loop: it returns at once if the
\* queue is empty, else sets i = 0 and copies the queue.
ShowCall ==
    /\ show.pc = "not called"
    /\ IF empty(Self)
       THEN /\ show' = [pc |-> "return", i |-> 0, k |-> 0]
            /\ UNCHANGED queue_copy
       ELSE /\ show' = [pc |-> "while", i |-> 0, k |-> size(Self)]
            /\ queue_copy' = copy(Self)
    /\ UNCHANGED <<QUEUE_SIZE, qvars, ref, last, run, last_change, written,
                   v1_0_0>>

\* One iteration of the loop: front(); if it gave nullptr, "No more
\* elements in the queue" and break; else pop() and i = i + 1.
ShowWhileBody ==
    /\ show.pc = "while"
    /\ empty(queue_copy) = FALSE
    /\ IF front(queue_copy) = nullptr
       THEN /\ show' = [show EXCEPT !.pc = "no more elements"]
            /\ UNCHANGED queue_copy
       ELSE /\ queue_copy' = pop(queue_copy)
            /\ show' = [show EXCEPT !.i = show.i + 1]
    /\ UNCHANGED <<QUEUE_SIZE, qvars, ref, last, run, last_change, written,
                   v1_0_0>>

\* The loop condition is false: the loop is left.
ShowWhileExit ==
    /\ show.pc = "while"
    /\ empty(queue_copy)
    /\ show' = [show EXCEPT !.pc = "return"]
    /\ UNCHANGED <<QUEUE_SIZE, qvars, ref, last, run, last_change, written,
                   queue_copy, v1_0_0>>

\* show_queue_content() returns; its locals are gone.
ShowReturn ==
    /\ show.pc \in {"return", "no more elements"}
    /\ show' = NotCalled
    /\ queue_copy' = NoCopy
    /\ UNCHANGED <<QUEUE_SIZE, qvars, ref, last, run, last_change, written,
                   v1_0_0>>

\* The steps of show_queue_content() once it is called.
ShowStep ==
    \/ ShowWhileBody
    \/ ShowWhileExit
    \/ ShowReturn

NextShow ==
    \/ \E element \in Values : MainPush(element)
    \/ MainPop
    \/ MainClear
    \/ ShowCall
    \/ ShowWhileBody
    \/ ShowWhileExit
    \/ ShowReturn

SpecShow == InitShow /\ [][NextShow]_vars

\* show_queue_content() is sequential code: once called, it takes its next
\* step.
SpecShowFair == SpecShow /\ WF_vars(ShowStep)

\* While the loop runs, the iterations done and the elements left add up
\* to the count the queue had; the loop is left with the copy empty after
\* exactly that many iterations, and never by the nullptr branch.
C24_LoopVariant ==
    /\ show.pc # "no more elements"
    /\ show.pc = "while" =>
           /\ show.i \in 0..show.k
           /\ size(queue_copy) = show.k - show.i
           /\ ~empty(queue_copy) => front(queue_copy) # nullptr
    /\ show.pc = "return" =>
           /\ show.i = show.k
           /\ show.k = num_elements_stored
           /\ show.k > 0 => empty(queue_copy)

\* C24: draining terminates: from any reachable state with count = k the
\* loop "while not empty(): front(); pop()" of show_queue_content makes
\* exactly k iterations and then stops with the drained queue empty, and
\* front() never returns nullptr inside the loop, so the "No more elements
\* in the queue" branch is never taken.
C24_DrainTerminates ==
    /\ []C24_LoopVariant
    /\ (show.pc = "while") ~> (show.pc = "return")

\* C24 witness: the loop has just been left after three iterations on the
\* copy of a full queue that had evicted, its tail having wrapped.
C24_Witness ==
    /\ show.pc = "return"
    /\ show.k = 3
    /\ show.i = 3
    /\ queue_overflow
    /\ queue_tail = 2
    /\ empty(queue_copy)
    /\ ~empty(Self)

----------------------------------------------------------------------------
(* Version 1.0.0 of the class, and the two versions side by side            *)

\* enum t_overflow of version 1.0.0
BUFFER_OK == 0
BUFFER_OVERFLOW == 1

\* SQueue() of version 1.0.0: the buffer is not initialised.
SQueue_v1_0_0(b) ==
    [buffer |-> b, queue_head |-> 0, queue_tail |-> 0,
     num_elements_stored |-> 0, buffer_overflow |-> FALSE]

clear_v1_0_0(q) ==
    [q EXCEPT !.queue_head = 0, !.queue_tail = 0,
              !.num_elements_stored = 0, !.buffer_overflow = FALSE]

empty_v1_0_0(q) == q.num_elements_stored = 0

size_v1_0_0(q) == q.num_elements_stored

full_v1_0_0(q) == size_v1_0_0(q) >= QUEUE_SIZE

\* front() of version 1.0.0 reading the slot at queue_tail, as 1.1.0 does
front_AtTail_v1_0_0(q) ==
    IF empty_v1_0_0(q) THEN nullptr ELSE AddrOf(q.queue_tail)

front_v1_0_0(q) ==
    IF empty_v1_0_0(q)
    THEN nullptr
    ELSE AddrOf((q.queue_tail + 1) % QUEUE_SIZE)

back_v1_0_0(q) ==
    IF empty_v1_0_0(q) THEN nullptr ELSE AddrOf(q.queue_head)

\* push() of version 1.0.0: the flag is set on a full queue and not reset
\* otherwise; head advances first and the element is written where it lands.
push_v1_0_0(q, element) ==
    LET q1 == IF full_v1_0_0(q)
              THEN [q EXCEPT !.buffer_overflow = TRUE,
                             !.queue_tail = (q.queue_tail + 1) % QUEUE_SIZE]
              ELSE [q EXCEPT !.num_elements_stored =
                                 q.num_elements_stored + 1]
        q2 == [q1 EXCEPT !.queue_head = (q1.queue_head + 1) % QUEUE_SIZE]
        q3 == [q2 EXCEPT !.buffer[q2.queue_head] = element]
    IN  [q |-> q3,
         rc |-> IF q3.buffer_overflow THEN BUFFER_OVERFLOW ELSE BUFFER_OK]

pop_v1_0_0(q) ==
    IF empty_v1_0_0(q)
    THEN q
    ELSE [q EXCEPT !.queue_tail = (q.queue_tail + 1) % QUEUE_SIZE,
                   !.num_elements_stored = q.num_elements_stored - 1,
                   !.buffer_overflow = FALSE]

\* One object of each version, each with its own uninitialised buffer, for
\* capacities 1..MaxQueueSize and element values 1..MaxValue; last
\* holds the results the two gave to the same call, the other observation
\* variables play no part and keep their initial values.
InitVersions ==
    /\ QUEUE_SIZE \in 1..MaxQueueSize
    /\ \E b \in [0..(QUEUE_SIZE - 1) -> Values] :
          /\ buffer = SQueue(b).buffer
          /\ queue_head = SQueue(b).queue_head
          /\ queue_tail = SQueue(b).queue_tail
          /\ num_elements_stored = SQueue(b).num_elements_stored
          /\ queue_overflow = SQueue(b).queue_overflow
    /\ \E b \in [0..(QUEUE_SIZE - 1) -> Values] :
          v1_0_0 = SQueue_v1_0_0(b)
    /\ last = [op |-> "SQueue", arg |-> 0, ret |-> <<0, 0>>, pre |-> NoCopy]
    /\ ref = <<>>
    /\ run = RunStart
    /\ last_change = "none"
    /\ written = {}
    /\ queue_copy = NoCopy
    /\ show = NotCalled

\* The same call made on both objects: the first becomes q, the second
\* q_v1_0_0, and ret is the pair of results.
OnBoth(op, arg, q, q_v1_0_0, ret) ==
    /\ Becomes(q)
    /\ v1_0_0' = q_v1_0_0
    /\ last' = [op |-> op, arg |-> arg, ret |-> ret, pre |-> NoCopy]
    /\ UNCHANGED <<QUEUE_SIZE, ref, run, last_change, written, queue_copy,
                   show>>

BothPush(element) ==
    OnBoth("push", element, push(Self, element).q,
           push_v1_0_0(v1_0_0, element).q,
           <<push(Self, element).rc, push_v1_0_0(v1_0_0, element).rc>>)

BothPop == OnBoth("pop", 0, pop(Self), pop_v1_0_0(v1_0_0), <<0, 0>>)

BothClear == OnBoth("clear", 0, clear(Self), clear_v1_0_0(v1_0_0), <<0, 0>>)

NextVersions ==
    \/ \E element \in Values : BothPush(element)
    \/ BothPop
    \/ BothClear

SpecVersions == InitVersions /\ [][NextVersions]_vars

\* C26: versions 1.1.0 and 1.0.0 are observationally equivalent: run side
\* by side on the same sequence of push, pop and clear, after every step
\* they have given the same push result (overflow or not) and give the same
\* size(), the same empty(), and the same front() and back() element
\* values, or both nullptr.
C26_VersionsEquivalent ==
    /\ last.op = "push" =>
           (last.ret[1] = OVERFLOW <=> last.ret[2] = BUFFER_OVERFLOW)
    /\ size(Self) = size_v1_0_0(v1_0_0)
    /\ empty(Self) = empty_v1_0_0(v1_0_0)
    /\ (front(Self) = nullptr) = (front_v1_0_0(v1_0_0) = nullptr)
    /\ (back(Self) = nullptr) = (back_v1_0_0(v1_0_0) = nullptr)
    /\ Deref(Self, front(Self)) = Deref(v1_0_0, front_v1_0_0(v1_0_0))
    /\ Deref(Self, back(Self)) = Deref(v1_0_0, back_v1_0_0(v1_0_0))

\* C26 witness: both versions have just answered OVERFLOW to a push on a
\* full queue of two elements, front and back differ, and the two objects
\* keep the front element in different slots.
C26_Witness ==
    /\ QUEUE_SIZE = 2
    /\ last.op = "push"
    /\ last.ret = <<OVERFLOW, BUFFER_OVERFLOW>>
    /\ Deref(Self, front(Self)) # Deref(Self, back(Self))
    /\ front(Self) # front_v1_0_0(v1_0_0)
    /\ buffer # v1_0_0.buffer

====
